---- MODULE Spec2Model ----
(***************************************************************************)
(* A model of the price-time priority order book of hgm-king/orderbook:   *)
(* the arena-based HalfBook (src/src/half.rs) and the Orderbook that       *)
(* composes two of them (src/src/book.rs).                                 *)
(*                                                                         *)
(* A Rust Vec is a function on 0..n-1 (the source's indices are kept), an  *)
(* Option is the empty sequence (None) or a one-element sequence (Some), a *)
(* HashMap is a function on its key set, and a Result is a record whose    *)
(* field ok tells Ok from Err and whose field hb is the state the call     *)
(* leaves behind (an early return keeps the writes made before it).        *)
(***************************************************************************)
EXTENDS Integers, Sequences, FiniteSets, TLC

\* ------------------------------------------------------------------ bounds
\* The ladder of book.rs has 999999 levels; the model keeps its lowest ones.
MAX_PRICE == 3
\* Largest size a caller submits.
MaxSize == 2
\* Number of limit orders an Orderbook accepts before the model stops it.
MaxOrders == 3
\* Number of distinct ids the caller of a HalfBook uses.
MaxIds == 2
\* Number of calls in a run of a HalfBook whose caller uses MaxIds + 1 ids.
MaxCalls == 5
\* Number of calls in a run of a HalfBook whose caller passes any arguments.
MaxAnyCalls == 3
\* Largest min_price and largest tick_size a HalfBook is constructed with.
MaxMinPrice == 2
MaxTick == 2

\* --------------------------------------------------------------- constants
MIN_PRICE == 1
TICK_SIZE == 1

\* `x as usize` of a negative i64 wraps to 2^64 + x, an index beyond every
\* Vec.  TLC's integers are 32 bits wide, so the modulus is scaled down to
\* 2^30, which is still beyond every Vec of the model.
USIZE_MODULUS == 1073741824

\* ------------------------------------------------------------------ Option
None == <<>>
Some(i) == <<i>>
IsSome(o) == o # <<>>
Unwrap(o) == o[1]

\* --------------------------------------------------------------------- Vec
VecLen(v) == Cardinality(DOMAIN v)
VecOf(n, x) == [i \in 0 .. (n - 1) |-> x]
VecPush(v, x) == [i \in 0 .. VecLen(v) |-> IF i < VecLen(v) THEN v[i] ELSE x]

\* ----------------------------------------------------------------- HashMap
MapInsert(m, k, v) == [x \in (DOMAIN m) \cup {k} |-> IF x = k THEN v ELSE m[x]]
MapRemove(m, k) == [x \in (DOMAIN m) \ {k} |-> m[x]]
EmptyMap == [x \in {} |-> 0]

\* ------------------------------------------------------------- arithmetic
Min(a, b) == IF a <= b THEN a ELSE b
\* i64 division truncates toward zero.
TruncDiv(a, b) ==
    IF (a >= 0) = (b > 0) THEN (IF a >= 0 THEN a ELSE -a) \div (IF b > 0 THEN b ELSE -b)
    ELSE -((IF a >= 0 THEN a ELSE -a) \div (IF b > 0 THEN b ELSE -b))
AsUsize(n) == IF n < 0 THEN n + USIZE_MODULUS ELSE n

\* ------------------------------------------------------------------ lib.rs
Sides == {"Buy", "Sell"}
DefaultOrder == [id |-> 0, price_index |-> 0, size |-> 0, prev |-> None, next |-> None]
DefaultPriceLevel == [head |-> None, tail |-> None, total_size |-> 0]

\* A Result<T>: Ok(val) with the state left behind, or Err.
Ok(hb, val) == [ok |-> TRUE, hb |-> hb, val |-> val]
Err(hb) == [ok |-> FALSE, hb |-> hb, val |-> 0]

\* ----------------------------------------------------------------- half.rs
new(side, max_price, min_price, tick_size) ==
    LET ladder_size == AsUsize(TruncDiv(max_price - min_price, tick_size) + 1)
    IN  [min_price |-> min_price,
         max_price |-> max_price,
         tick_size |-> tick_size,
         side |-> side,
         top_of_book |-> None,
         orders |-> VecOf(ladder_size, DefaultPriceLevel),
         arena |-> VecOf(ladder_size, DefaultOrder),
         free_list |-> [i \in 1 .. ladder_size |-> i - 1],
         ids |-> EmptyMap]

calculate_price_index(hb, price) ==
    AsUsize(TruncDiv(price - hb.min_price, hb.tick_size))

\* A price that is the level's index itself.
get_price_from_index_unshifted(hb, index) == index

get_price_from_index(hb, index) == index + hb.min_price

get_total_liquidity(hb) ==
    LET RECURSIVE fold(_, _)
        fold(i, acc) ==
            IF i \in DOMAIN hb.orders THEN fold(i + 1, acc + hb.orders[i].total_size)
            ELSE acc
    IN  fold(0, 0)

get_top_of_book(hb) ==
    IF IsSome(hb.top_of_book) /\ Unwrap(hb.top_of_book) \in DOMAIN hb.orders
    THEN Some([size |-> hb.orders[Unwrap(hb.top_of_book)].total_size,
               price |-> get_price_from_index(hb, Unwrap(hb.top_of_book))])
    ELSE None

\* The Buy branch of find_next_best_level: look to the left of tob.
RECURSIVE scan_down(_, _)
scan_down(hb, tob) ==
    IF tob > 0
    THEN IF (tob - 1) \in DOMAIN hb.orders /\ hb.orders[tob - 1].total_size # 0
         THEN Some(tob - 1)
         ELSE scan_down(hb, tob - 1)
    ELSE None

\* The Sell branch of find_next_best_level: look to the right of tob; the
\* index is incremented before orders.get(tob) bounds-checks it.
RECURSIVE scan_up(_, _)
scan_up(hb, tob) ==
    IF tob < VecLen(hb.orders)
    THEN IF (tob + 1) \in DOMAIN hb.orders /\ hb.orders[tob + 1].total_size # 0
         THEN Some(tob + 1)
         ELSE scan_up(hb, tob + 1)
    ELSE None

\* A scan that looks to the left on both sides.
find_next_best_level_leftwards(hb, tob) ==
    IF tob = 0 THEN None ELSE scan_down(hb, tob)

find_next_best_level(hb, tob) ==
    IF hb.side = "Buy"
    THEN IF tob = 0 THEN None ELSE scan_down(hb, tob)
    ELSE IF tob = VecLen(hb.orders) THEN None ELSE scan_up(hb, tob)

\* A relinking that repairs the forward link only.
remove_order_from_linked_list_oneway(hb, prev, next) ==
    IF IsSome(prev) /\ Unwrap(prev) \notin DOMAIN hb.arena THEN Err(hb)
    ELSE IF IsSome(prev) THEN Ok([hb EXCEPT !.arena[Unwrap(prev)].next = next], 0)
    ELSE Ok(hb, 0)

remove_order_from_linked_list(hb, prev, next) ==
    IF IsSome(prev) /\ Unwrap(prev) \notin DOMAIN hb.arena THEN Err(hb)
    ELSE LET hb1 == IF IsSome(prev)
                    THEN [hb EXCEPT !.arena[Unwrap(prev)].next = next]
                    ELSE hb
         IN  IF IsSome(next) /\ Unwrap(next) \notin DOMAIN hb1.arena THEN Err(hb1)
             ELSE IF IsSome(next)
                  THEN Ok([hb1 EXCEPT !.arena[Unwrap(next)].prev = prev], 0)
                  ELSE Ok(hb1, 0)

\* A head removal that leaves the level's tail as it was.
remove_head_of_price_level_keep_tail(hb, index) ==
    IF index \notin DOMAIN hb.orders THEN Err(hb)
    ELSE IF ~IsSome(hb.orders[index].head) THEN Ok(hb, 0)
    ELSE IF Unwrap(hb.orders[index].head) \notin DOMAIN hb.arena THEN Err(hb)
    ELSE remove_order_from_linked_list(
             [hb EXCEPT !.orders[index].total_size =
                            @ - hb.arena[Unwrap(hb.orders[index].head)].size,
                        !.orders[index].head = hb.arena[Unwrap(hb.orders[index].head)].next],
             hb.arena[Unwrap(hb.orders[index].head)].prev,
             hb.arena[Unwrap(hb.orders[index].head)].next)

remove_head_of_price_level(hb, index) ==
    IF index \notin DOMAIN hb.orders THEN Err(hb)
    ELSE LET price_level == hb.orders[index] IN
         IF ~IsSome(price_level.head) THEN Ok(hb, 0)
         ELSE LET head_arena_index == Unwrap(price_level.head) IN
              IF head_arena_index \notin DOMAIN hb.arena THEN Err(hb)
              ELSE LET head_order == hb.arena[head_arena_index]
                       hb1 == [hb EXCEPT
                                 !.orders[index].total_size = @ - head_order.size,
                                 !.orders[index].tail =
                                     IF @ = Some(head_arena_index) THEN None ELSE @,
                                 !.orders[index].head = head_order.next]
                   IN  remove_order_from_linked_list(hb1, head_order.prev, head_order.next)

\* An insert that always pushes a fresh record on the arena.
acquire_slot_fresh(hb) ==
    [arena_index |-> VecLen(hb.arena),
     hb |-> [hb EXCEPT !.arena = VecPush(@, DefaultOrder)]]

\* An insert that takes the oldest entry of free_list.
acquire_slot_fifo(hb) ==
    IF Len(hb.free_list) > 0
    THEN [arena_index |-> hb.free_list[1],
          hb |-> [hb EXCEPT !.free_list = SubSeq(@, 2, Len(@))]]
    ELSE [arena_index |-> VecLen(hb.arena),
          hb |-> [hb EXCEPT !.arena = VecPush(@, DefaultOrder)]]

\* The slot an insert writes to: the most recently freed one, else a fresh
\* record pushed on the arena.
acquire_slot(hb) ==
    IF Len(hb.free_list) > 0
    THEN [arena_index |-> hb.free_list[Len(hb.free_list)],
          hb |-> [hb EXCEPT !.free_list = SubSeq(@, 1, Len(@) - 1)]]
    ELSE [arena_index |-> VecLen(hb.arena),
          hb |-> [hb EXCEPT !.arena = VecPush(@, DefaultOrder)]]

\* An insert that sets the top of book of an empty book only.
insert_top_of_book_stale(hb, price_index) ==
    IF ~IsSome(hb.top_of_book) THEN Some(price_index) ELSE hb.top_of_book

\* A top-of-book update with the two sides' comparisons exchanged.
insert_top_of_book_flipped(hb, price_index) ==
    IF ~IsSome(hb.top_of_book) THEN Some(price_index)
    ELSE IF hb.side = "Buy"
    THEN IF Unwrap(hb.top_of_book) > price_index THEN Some(price_index) ELSE hb.top_of_book
    ELSE IF Unwrap(hb.top_of_book) < price_index THEN Some(price_index) ELSE hb.top_of_book

\* The top-of-book update that ends insert.
insert_top_of_book(hb, price_index) ==
    IF hb.side = "Buy"
    THEN IF ~IsSome(hb.top_of_book) THEN Some(price_index)
         ELSE IF Unwrap(hb.top_of_book) < price_index THEN Some(price_index)
         ELSE hb.top_of_book
    ELSE IF ~IsSome(hb.top_of_book) THEN Some(price_index)
         ELSE IF Unwrap(hb.top_of_book) > price_index THEN Some(price_index)
         ELSE hb.top_of_book

\* insert, from "Append to level tail" on: link slot arena_index behind
\* old_tail at level price_index, write the order, index its id and update
\* the top of book.
append_to_level(hb, arena_index, old_tail, id, price_index, size) ==
    IF IsSome(old_tail) /\ Unwrap(old_tail) \notin DOMAIN hb.arena
    THEN Err([hb EXCEPT !.orders[price_index].total_size = @ + size,
                        !.orders[price_index].head =
                            IF ~IsSome(@) THEN Some(arena_index) ELSE @])
    ELSE IF arena_index \notin DOMAIN hb.arena
    THEN Err([hb EXCEPT !.orders[price_index].total_size = @ + size,
                        !.orders[price_index].head =
                            IF ~IsSome(@) THEN Some(arena_index) ELSE @,
                        !.orders[price_index].tail = Some(arena_index),
                        !.arena = [i \in DOMAIN @ |->
                                     IF Some(i) = old_tail
                                     THEN [@[i] EXCEPT !.next = Some(arena_index)]
                                     ELSE @[i]]])
    ELSE Ok([hb EXCEPT !.orders[price_index].total_size = @ + size,
                       !.orders[price_index].head =
                           IF ~IsSome(@) THEN Some(arena_index) ELSE @,
                       !.orders[price_index].tail = Some(arena_index),
                       !.arena = [i \in DOMAIN @ |->
                                    IF i = arena_index
                                    THEN [id |-> id,
                                          price_index |-> price_index,
                                          size |-> size,
                                          prev |-> old_tail,
                                          next |-> None]
                                    ELSE IF Some(i) = old_tail
                                    THEN [@[i] EXCEPT !.next = Some(arena_index)]
                                    ELSE @[i]],
                       !.ids = MapInsert(@, id, arena_index),
                       !.top_of_book = insert_top_of_book(hb, price_index)], 0)

\* insert, once the slot is acquired: the level is looked up only now.
insert_in_slot(slot, id, price_index, size) ==
    IF price_index \notin DOMAIN slot.hb.orders THEN Err(slot.hb)
    ELSE append_to_level(slot.hb, slot.arena_index, slot.hb.orders[price_index].tail,
                         id, price_index, size)

\* An insert that turns down an id that is resting.
insert_unique(hb, id, price, size) ==
    IF price <= 0 \/ size <= 0 THEN Err(hb)
    ELSE IF id \in DOMAIN hb.ids THEN Err(hb)
    ELSE insert_in_slot(acquire_slot(hb), id, calculate_price_index(hb, price), size)

insert(hb, id, price, size) ==
    IF price <= 0 \/ size <= 0 THEN Err(hb)
    ELSE insert_in_slot(acquire_slot(hb), id, calculate_price_index(hb, price), size)

\* The top-of-book update of remove: only when the removed order's level was
\* the top of book and is left with total_size 0.
remove_top_of_book(hb, price_index) ==
    IF hb.top_of_book = Some(price_index) /\ hb.orders[price_index].total_size = 0
    THEN find_next_best_level(hb, price_index)
    ELSE hb.top_of_book

\* remove, after the neighbours are relinked (r is what the relinking gave).
remove_release(r, arena_index, price_index) ==
    IF ~r.ok THEN Err(r.hb)
    ELSE Ok([r.hb EXCEPT !.top_of_book = remove_top_of_book(r.hb, price_index),
                         !.free_list = Append(@, arena_index)], 0)

\* remove, once the order is found in the arena.
remove_order(hb, arena_index, order) ==
    IF order.price_index \notin DOMAIN hb.orders THEN Err(hb)
    ELSE remove_release(
             remove_order_from_linked_list(
                 [hb EXCEPT !.orders[order.price_index].head =
                                IF @ = Some(arena_index) THEN order.next ELSE @,
                            !.orders[order.price_index].tail =
                                IF @ = Some(arena_index) THEN order.prev ELSE @,
                            !.orders[order.price_index].total_size = @ - order.size],
                 order.prev, order.next),
             arena_index, order.price_index)

\* A remove that clears the top of book before it looks the id up.
remove_clearing(hb, id) ==
    IF id \notin DOMAIN hb.ids THEN Err([hb EXCEPT !.top_of_book = None])
    ELSE IF hb.ids[id] \notin DOMAIN hb.arena THEN Err([hb EXCEPT !.ids = MapRemove(@, id)])
    ELSE remove_order([hb EXCEPT !.ids = MapRemove(@, id)], hb.ids[id], hb.arena[hb.ids[id]])

remove(hb, id) ==
    IF id \notin DOMAIN hb.ids THEN Err(hb)
    ELSE IF hb.ids[id] \notin DOMAIN hb.arena THEN Err([hb EXCEPT !.ids = MapRemove(@, id)])
    ELSE remove_order([hb EXCEPT !.ids = MapRemove(@, id)], hb.ids[id], hb.arena[hb.ids[id]])

\* A re-insert that leaves top_of_book where the remove put it.
reinsert_stale_top(r, id, price, size) ==
    IF ~r.ok THEN Err(r.hb)
    ELSE IF ~insert(r.hb, id, price, size).ok THEN insert(r.hb, id, price, size)
    ELSE Ok([insert(r.hb, id, price, size).hb EXCEPT !.top_of_book = r.hb.top_of_book], 0)

\* The price-changing arm of modify: remove(id)?; insert(id, price, size)?
reinsert(r, id, price, size) ==
    IF ~r.ok THEN Err(r.hb) ELSE insert(r.hb, id, price, size)

\* An in-place modify that adds the new size to the level's total without
\* taking the old one off.
modify_in_place_added(hb, arena_index, order, size) ==
    IF order.price_index \notin DOMAIN hb.orders THEN Err(hb)
    ELSE Ok([hb EXCEPT !.orders[order.price_index].total_size = @ + size,
                       !.arena[arena_index].size = size], 0)

\* An in-place modify that writes the new size over the level's total.
modify_in_place_level_overwritten(hb, arena_index, order, size) ==
    IF order.price_index \notin DOMAIN hb.orders THEN Err(hb)
    ELSE Ok([hb EXCEPT !.orders[order.price_index].total_size = size,
                       !.arena[arena_index].size = size], 0)

\* An in-place modify that also points top_of_book at the order's level.
modify_in_place_retopped(hb, arena_index, order, size) ==
    IF order.price_index \notin DOMAIN hb.orders THEN Err(hb)
    ELSE Ok([hb EXCEPT !.orders[order.price_index].total_size = (@ - order.size) + size,
                       !.arena[arena_index].size = size,
                       !.top_of_book = Some(order.price_index)], 0)

\* The same-level arm of modify: the size is overwritten in place.
modify_in_place(hb, arena_index, order, size) ==
    IF order.price_index \notin DOMAIN hb.orders THEN Err(hb)
    ELSE Ok([hb EXCEPT !.orders[order.price_index].total_size = (@ - order.size) + size,
                       !.arena[arena_index].size = size], 0)

\* A modify that takes the order off its level and queues it again whatever
\* the new price.
modify_requeue(hb, id, price, size) ==
    IF id \notin DOMAIN hb.ids THEN Err(hb)
    ELSE reinsert(remove(hb, id), id, price, size)

modify(hb, id, price, size) ==
    IF id \notin DOMAIN hb.ids THEN Err(hb)
    ELSE IF hb.ids[id] \notin DOMAIN hb.arena THEN Err(hb)
    ELSE IF hb.arena[hb.ids[id]].price_index # calculate_price_index(hb, price)
    THEN reinsert(remove(hb, id), id, price, size)
    ELSE modify_in_place(hb, hb.ids[id], hb.arena[hb.ids[id]], size)

\* What match_size hands back: Ok(notional) or Err with the state left
\* behind, the fills it made in order (one per pass of the inner loop: the
\* maker's id and slot, its level, the size traded and whether the maker was
\* used up), and whether the call returns at all.
MatchResult(ok, hb, notional, fills, returns) ==
    [ok |-> ok, hb |-> hb, val |-> notional, fills |-> fills, returns |-> returns]

\* Where the inner loop of match_size stands: the book, the size still to
\* fill, the notional and the fills so far.
LevelResult(ok, hb, size, notional, fills) ==
    [ok |-> ok, hb |-> hb, size |-> size, notional |-> notional, fills |-> fills]

Fill(order, order_index, tob, traded) ==
    [id |-> order.id, slot |-> order_index, price_index |-> tob,
     traded |-> traded, order_empty |-> (order.size - traded = 0)]

\* A release that forgets the id but does not give the slot back.
release_filled_leak(r, order, order_index, order_empty) ==
    IF ~r.ok THEN r
    ELSE IF order_empty THEN Ok([r.hb EXCEPT !.ids = MapRemove(@, order.id)], 0)
    ELSE r

\* A release that gives the slot back but keeps the id.
release_filled_keep_id(r, order, order_index, order_empty) ==
    IF ~r.ok THEN r
    ELSE IF order_empty THEN Ok([r.hb EXCEPT !.free_list = Append(@, order_index)], 0)
    ELSE r

\* The end of a pass of the inner loop: a maker that was used up is taken off
\* the head of its level (r is what remove_head_of_price_level gave), its id
\* forgotten and its slot freed.
release_filled(r, order, order_index, order_empty) ==
    IF ~r.ok THEN r
    ELSE IF order_empty
    THEN Ok([r.hb EXCEPT !.ids = MapRemove(@, order.id),
                         !.free_list = Append(@, order_index)], 0)
    ELSE r

\* A fill that takes the maker off its level whether it was used up or not.
fill_head_always_released(hb, tob, order_index, order, traded) ==
    release_filled(
        remove_head_of_price_level(
            [hb EXCEPT !.arena[order_index].size = @ - traded,
                       !.orders[tob].total_size = @ - traded], tob),
        order, order_index, TRUE)

\* One fill: the head order of level tob trades min(size, order.size).
fill_head(hb, tob, order_index, order, traded) ==
    release_filled(
        IF order.size - traded = 0
        THEN remove_head_of_price_level(
                 [hb EXCEPT !.arena[order_index].size = @ - traded,
                            !.orders[tob].total_size = @ - traded], tob)
        ELSE Ok([hb EXCEPT !.arena[order_index].size = @ - traded,
                           !.orders[tob].total_size = @ - traded], 0),
        order, order_index, order.size - traded = 0)

\* The inner `loop` of match_size at level tob: consume the FIFO head until
\* size is filled or the level has nothing left.
RECURSIVE match_level(_, _, _, _, _)
match_next(r, tob, size, notional, fills) ==
    IF ~r.ok THEN LevelResult(FALSE, r.hb, size, notional, fills)
    ELSE match_level(r.hb, tob, size, notional, fills)

match_head(hb, tob, size, notional, fills, order_index, order, traded) ==
    match_next(fill_head(hb, tob, order_index, order, traded),
               tob,
               size - traded,
               notional + traded * get_price_from_index(hb, tob),
               Append(fills, Fill(order, order_index, tob, traded)))

match_level(hb, tob, size, notional, fills) ==
    IF tob \notin DOMAIN hb.orders THEN LevelResult(FALSE, hb, size, notional, fills)
    ELSE IF size <= 0 \/ hb.orders[tob].total_size <= 0 \/ ~IsSome(hb.orders[tob].head)
    THEN LevelResult(TRUE, hb, size, notional, fills)
    ELSE IF Unwrap(hb.orders[tob].head) \notin DOMAIN hb.arena
    THEN LevelResult(FALSE, hb, size, notional, fills)
    ELSE match_head(hb, tob, size, notional, fills,
                    Unwrap(hb.orders[tob].head),
                    hb.arena[Unwrap(hb.orders[tob].head)],
                    Min(size, hb.arena[Unwrap(hb.orders[tob].head)].size))

\* The top-of-book update that ends a pass of the outer loop of match_size.
match_top_of_book(hb, tob) ==
    IF hb.orders[tob].total_size = 0 THEN find_next_best_level(hb, tob) ELSE hb.top_of_book

\* The outer `while size > 0` of match_size.  A pass that leaves the book and
\* the size as it found them is repeated for ever: the call does not return.
RECURSIVE match_loop(_, _, _, _)
match_pass(hb, size, hb1, r) ==
    IF hb1 = hb /\ r.size = size THEN MatchResult(FALSE, hb1, 0, r.fills, FALSE)
    ELSE match_loop(hb1, r.size, r.notional, r.fills)

match_after_level(hb, size, tob, r) ==
    IF ~r.ok THEN MatchResult(FALSE, r.hb, 0, r.fills, TRUE)
    ELSE match_pass(hb, size, [r.hb EXCEPT !.top_of_book = match_top_of_book(r.hb, tob)], r)

\* A match that fails when the book is drained before the size is filled.
match_loop_strict(hb, size, notional, fills) ==
    IF ~(size > 0) THEN MatchResult(TRUE, hb, notional, fills, TRUE)
    ELSE IF ~IsSome(hb.top_of_book) THEN MatchResult(FALSE, hb, 0, fills, TRUE)
    ELSE match_after_level(hb, size, Unwrap(hb.top_of_book),
                           match_level(hb, Unwrap(hb.top_of_book), size, notional, fills))

match_loop(hb, size, notional, fills) ==
    IF ~(size > 0) THEN MatchResult(TRUE, hb, notional, fills, TRUE)
    ELSE IF ~IsSome(hb.top_of_book) THEN MatchResult(TRUE, hb, notional, fills, TRUE)
    ELSE match_after_level(hb, size, Unwrap(hb.top_of_book),
                           match_level(hb, Unwrap(hb.top_of_book), size, notional, fills))

\* A match that is an error on a book with no top of book.
match_size_nonempty(hb, size) ==
    IF size = 0 \/ ~IsSome(hb.top_of_book) THEN MatchResult(FALSE, hb, 0, <<>>, TRUE)
    ELSE match_loop(hb, size, 0, <<>>)

match_size(hb, size) ==
    IF size = 0 THEN MatchResult(FALSE, hb, 0, <<>>, TRUE)
    ELSE match_loop(hb, size, 0, <<>>)

\* ----------------------------------------------------------------- book.rs
\* An OrderTicket: order_type is "Market" or "Limit"; price is read for a
\* Limit only.
MarketTicket(side, size) ==
    [order_type |-> "Market", side |-> side, size |-> size, price |-> 0]
LimitTicket(side, price, size) ==
    [order_type |-> "Limit", side |-> side, size |-> size, price |-> price]

\* Orderbook::new
new_orderbook ==
    [bids |-> new("Buy", MAX_PRICE, MIN_PRICE, TICK_SIZE),
     asks |-> new("Sell", MAX_PRICE, MIN_PRICE, TICK_SIZE),
     current_id |-> 0]

get_best_bid(ob) == get_top_of_book(ob.bids)
get_best_ask(ob) == get_top_of_book(ob.asks)

total_liquidity(ob, side) ==
    IF side = "Sell" THEN get_total_liquidity(ob.asks) ELSE get_total_liquidity(ob.bids)

\* A crossing test that lets a buy at the best ask's own price rest.
ask_crosses_strict(best_ask, price) ==
    IF IsSome(best_ask) THEN Unwrap(best_ask).price < price ELSE FALSE

\* A crossing test that lets a sell at the best bid's own price rest.
bid_crosses_strict(best_bid, price) ==
    IF IsSome(best_bid) THEN Unwrap(best_bid).price > price ELSE FALSE

\* The closures of the crossing test; unwrap_or_default gives false when the
\* opposite side is empty.
ask_crosses(best_ask, price) == IF IsSome(best_ask) THEN Unwrap(best_ask).price <= price ELSE FALSE
bid_crosses(best_bid, price) == IF IsSome(best_bid) THEN Unwrap(best_bid).price >= price ELSE FALSE

crosses_book(ob, side, price) ==
    IF side = "Buy" THEN ask_crosses(get_best_ask(ob), price)
    ELSE bid_crosses(get_best_bid(ob), price)

\* The outcome of accept_order: the Orderbook it leaves, the response
\* (Market{notional, size}, Limit{id} or Err), the fills of the match it ran
\* and whether it returns.
Outcome(ob, response, fills, returns) ==
    [ob |-> ob, response |-> response, fills |-> fills, returns |-> returns]
ErrResponse == [kind |-> "Err", notional |-> 0, size |-> 0, id |-> 0]
MarketResponse(notional, size) ==
    [kind |-> "Market", notional |-> notional, size |-> size, id |-> 0]
LimitResponse(id) == [kind |-> "Limit", notional |-> 0, size |-> 0, id |-> id]

\* A taker response that stores the matched half-book on the ticket's own side.
taker_response_own_side(ob, side, size, r) ==
    Outcome(IF side = "Sell" THEN [ob EXCEPT !.asks = r.hb] ELSE [ob EXCEPT !.bids = r.hb],
            IF r.ok THEN MarketResponse(r.val, size) ELSE ErrResponse,
            r.fills, r.returns)

\* handle_taker, after match_size on the opposite half-book gave r.
taker_response(ob, side, size, r) ==
    Outcome(IF side = "Sell" THEN [ob EXCEPT !.bids = r.hb] ELSE [ob EXCEPT !.asks = r.hb],
            IF r.ok THEN MarketResponse(r.val, size) ELSE ErrResponse,
            r.fills, r.returns)

handle_taker(ob, side, size) ==
    taker_response(ob, side, size, match_size(IF side = "Sell" THEN ob.bids ELSE ob.asks, size))

\* A maker response that hands the id out without advancing current_id.
maker_response_keep_id(ob, side, id, r) ==
    Outcome(IF side = "Sell" THEN [ob EXCEPT !.asks = r.hb] ELSE [ob EXCEPT !.bids = r.hb],
            IF r.ok THEN LimitResponse(id) ELSE ErrResponse,
            <<>>, TRUE)

\* handle_maker, after insert on the own half-book gave r; the id is taken
\* before insert is called.
maker_response(ob, side, id, r) ==
    Outcome(IF side = "Sell"
            THEN [ob EXCEPT !.asks = r.hb, !.current_id = @ + 1]
            ELSE [ob EXCEPT !.bids = r.hb, !.current_id = @ + 1],
            IF r.ok THEN LimitResponse(id) ELSE ErrResponse,
            <<>>, TRUE)

handle_maker(ob, side, price, size) ==
    maker_response(ob, side, ob.current_id,
                   insert(IF side = "Sell" THEN ob.asks ELSE ob.bids,
                          ob.current_id, price, size))

\* An accept_order that lets every Limit ticket rest, crossing or not.
accept_order_resting(ob, order_ticket) ==
    IF order_ticket.order_type = "Market"
    THEN handle_taker(ob, order_ticket.side, order_ticket.size)
    ELSE handle_maker(ob, order_ticket.side, order_ticket.price, order_ticket.size)

accept_order(ob, order_ticket) ==
    IF order_ticket.order_type = "Market"
    THEN handle_taker(ob, order_ticket.side, order_ticket.size)
    ELSE IF crosses_book(ob, order_ticket.side, order_ticket.price)
    THEN handle_taker(ob, order_ticket.side, order_ticket.size)
    ELSE handle_maker(ob, order_ticket.side, order_ticket.price, order_ticket.size)

\* ------------------------------------------------------------ orderbook.rs
\* The vector-based Orderbook: bids ascending and asks descending, the best
\* order of each side at the end of its Vec.  symbol and event_log are never
\* read or written after construction and are left out.
VecInsert(v, index, x) ==
    [i \in 0 .. VecLen(v) |-> IF i < index THEN v[i] ELSE IF i = index THEN x ELSE v[i - 1]]
VecRemove(v, index) ==
    [i \in 0 .. (VecLen(v) - 2) |-> IF i < index THEN v[i] ELSE v[i + 1]]

orderbook_new == [bids |-> VecOf(0, 0), asks |-> VecOf(0, 0), current_id |-> 0]

orderbook_get_top_of_book(vb, side) ==
    IF side = "Buy"
    THEN IF VecLen(vb.bids) > 0 THEN Some(vb.bids[VecLen(vb.bids) - 1]) ELSE None
    ELSE IF VecLen(vb.asks) > 0 THEN Some(vb.asks[VecLen(vb.asks) - 1]) ELSE None

orderbook_get_best_bid(vb) == orderbook_get_top_of_book(vb, "Buy")
orderbook_get_best_ask(vb) == orderbook_get_top_of_book(vb, "Sell")

orderbook_total_liquidity(vb, side) ==
    LET RECURSIVE fold(_, _, _)
        fold(v, i, acc) == IF i \in DOMAIN v THEN fold(v, i + 1, acc + v[i].size) ELSE acc
    IN  fold(IF side = "Buy" THEN vb.bids ELSE vb.asks, 0, 0)

\* What the `while size != 0` of handle_taker leaves: Ok or Err, the half it
\* traded against as the loop left it, the notional and the size left.
FillResult(ok, half_vec, notional, size) ==
    [ok |-> ok, hb |-> half_vec, val |-> notional, size |-> size]

\* A fill that reports success when the half runs empty.
RECURSIVE orderbook_fill_lenient(_, _, _)
orderbook_fill_lenient(half_vec, size, notional) ==
    IF size = 0 \/ VecLen(half_vec) = 0 THEN FillResult(TRUE, half_vec, notional, size)
    ELSE IF half_vec[VecLen(half_vec) - 1].size > size
    THEN FillResult(TRUE,
                    [half_vec EXCEPT ![VecLen(half_vec) - 1].size = @ - size],
                    notional + size * half_vec[VecLen(half_vec) - 1].price, 0)
    ELSE orderbook_fill_lenient(VecRemove(half_vec, VecLen(half_vec) - 1),
                                size - half_vec[VecLen(half_vec) - 1].size,
                                notional + half_vec[VecLen(half_vec) - 1].size
                                           * half_vec[VecLen(half_vec) - 1].price)

\* The `while size != 0` of handle_taker: fill against the last order of the
\* half; an empty half with size left is an error, and the orders already
\* taken stay taken.
RECURSIVE orderbook_fill(_, _, _)
orderbook_fill_bbo(half_vec, size, notional, elem_index, bbo) ==
    IF bbo.size > size
    THEN orderbook_fill([half_vec EXCEPT ![elem_index].size = @ - size],
                        0, notional + size * bbo.price)
    ELSE orderbook_fill(VecRemove(half_vec, elem_index),
                        size - bbo.size, notional + bbo.size * bbo.price)

orderbook_fill(half_vec, size, notional) ==
    IF size = 0 THEN FillResult(TRUE, half_vec, notional, size)
    ELSE IF VecLen(half_vec) = 0 THEN FillResult(FALSE, half_vec, notional, size)
    ELSE orderbook_fill_bbo(half_vec, size, notional,
                            VecLen(half_vec) - 1, half_vec[VecLen(half_vec) - 1])

\* handle_taker, after the loop gave r: the response carries the loop's own
\* size variable, which is 0 when the loop ends normally.
orderbook_taker_response(vb, side, r) ==
    Outcome(IF side = "Buy" THEN [vb EXCEPT !.asks = r.hb] ELSE [vb EXCEPT !.bids = r.hb],
            IF r.ok THEN MarketResponse(r.val, r.size) ELSE ErrResponse,
            <<>>, TRUE)

orderbook_handle_taker(vb, side, size) ==
    IF size <= 0 THEN Outcome(vb, ErrResponse, <<>>, TRUE)
    ELSE orderbook_taker_response(
             vb, side, orderbook_fill(IF side = "Buy" THEN vb.asks ELSE vb.bids, size, 0))

\* The backwards scan of handle_maker: the new order goes right after the
\* first order, counted from the end, that is strictly worse than it; at the
\* front when there is none.
RECURSIVE orderbook_insert_index(_, _, _, _)
orderbook_insert_index(half_vec, side, price, index) ==
    IF index < 0 THEN 0
    ELSE IF side = "Sell" /\ half_vec[index].price > price THEN index + 1
    ELSE IF side = "Buy" /\ half_vec[index].price < price THEN index + 1
    ELSE orderbook_insert_index(half_vec, side, price, index - 1)

orderbook_place(half_vec, side, new_order) ==
    IF VecLen(half_vec) = 0 THEN VecPush(half_vec, new_order)
    ELSE VecInsert(half_vec,
                   orderbook_insert_index(half_vec, side, new_order.price, VecLen(half_vec) - 1),
                   new_order)

orderbook_handle_maker(vb, side, price, size) ==
    IF size <= 0 \/ price <= 0 THEN Outcome(vb, ErrResponse, <<>>, TRUE)
    ELSE Outcome(
             IF side = "Buy"
             THEN [vb EXCEPT !.current_id = @ + 1,
                             !.bids = orderbook_place(@, side,
                                          [id |-> vb.current_id, price |-> price, size |-> size])]
             ELSE [vb EXCEPT !.current_id = @ + 1,
                             !.asks = orderbook_place(@, side,
                                          [id |-> vb.current_id, price |-> price, size |-> size])],
             LimitResponse(vb.current_id), <<>>, TRUE)

orderbook_crosses_book(vb, side, price) ==
    IF side = "Buy"
    THEN IF IsSome(orderbook_get_best_ask(vb))
         THEN Unwrap(orderbook_get_best_ask(vb)).price <= price ELSE FALSE
    ELSE IF IsSome(orderbook_get_best_bid(vb))
         THEN Unwrap(orderbook_get_best_bid(vb)).price >= price ELSE FALSE

orderbook_accept_order(vb, order_ticket) ==
    IF order_ticket.order_type = "Market"
    THEN orderbook_handle_taker(vb, order_ticket.side, order_ticket.size)
    ELSE IF orderbook_crosses_book(vb, order_ticket.side, order_ticket.price)
    THEN orderbook_handle_taker(vb, order_ticket.side, order_ticket.size)
    ELSE orderbook_handle_maker(vb, order_ticket.side, order_ticket.price, order_ticket.size)

\* ------------------------------------------------------------------ inputs
\* What callers submit: every price of the ladder and one beyond each end,
\* every size up to MaxSize, zero and a negative one.
Prices == (MIN_PRICE - 1) .. (MAX_PRICE + 1)
Sizes == -1 .. MaxSize
Ids == 0 .. (MaxIds - 1)
DeepIds == 0 .. MaxIds
MinPrices == MIN_PRICE .. MaxMinPrice
TickSizes == 1 .. MaxTick
Tickets ==
    {MarketTicket(side, size) : side \in Sides, size \in Sizes}
    \cup {LimitTicket(side, price, size) : side \in Sides, price \in Prices, size \in Sizes}

\* ------------------------------------------------------------------- state
VARIABLES
    ob,         \* the Orderbook of book.rs
    ticket,     \* the last ticket given to accept_order
    response,   \* what accept_order answered
    half,       \* a HalfBook driven directly through its own entry points
    call,       \* the last call made on half, with its result
    arrivals,   \* the ids resting on half, in the order they joined their level
    ledger,     \* sizes inserted - taken out by remove - traded + modify deltas
    calls,      \* the number of calls made on half, where the run counts them
    args,       \* what a run notes of the calls on half: the last id and price, successes, peak
    vbook       \* the Orderbook of orderbook.rs

vars == <<ob, ticket, response, half, call, arrivals, ledger, calls, args, vbook>>
obVars == <<ob, ticket, response, vbook>>
halfVars == <<half, call, arrivals, ledger>>

NoTicket == [order_type |-> "None", side |-> "Buy", size |-> 0, price |-> 0]
NoResponse == [kind |-> "None", notional |-> 0, size |-> 0, id |-> 0]
NoReturn == [kind |-> "NoReturn", notional |-> 0, size |-> 0, id |-> 0]
\* The record of a call: the entry point, the size it was given, its result
\* and, for match_size, the fills it made and whether it returned.
NoCall == [op |-> "new", size |-> 0, ok |-> TRUE, val |-> 0, fills |-> <<>>, returns |-> TRUE]
Call(op, size, r, fills, returns) ==
    [op |-> op, size |-> size, ok |-> r.ok, val |-> r.val, fills |-> fills, returns |-> returns]

\* The slots of level i in queue order: follow next from head.  The walk
\* stops after as many steps as the arena has records.
LevelFifo(hb, i) ==
    LET RECURSIVE walk(_, _)
        walk(slot, fuel) ==
            IF ~IsSome(slot) \/ fuel = 0 \/ Unwrap(slot) \notin DOMAIN hb.arena THEN <<>>
            ELSE <<Unwrap(slot)>> \o walk(hb.arena[Unwrap(slot)].next, fuel - 1)
    IN  walk(hb.orders[i].head, VecLen(hb.arena))

\* The number of orders queued on hb, counted level by level from level i.
RECURSIVE CountLinked(_, _)
CountLinked(hb, i) ==
    IF i \in DOMAIN hb.orders THEN Len(LevelFifo(hb, i)) + CountLinked(hb, i + 1) ELSE 0

\* No call noted yet.  clean: every call so far returned Ok, and no insert
\* used an id that was resting.  all_ok: every call so far returned Ok.
\* peak: the largest number of orders queued at once so far.
NoArgs == [id |-> 0, price |-> 0, clean |-> TRUE, all_ok |-> TRUE, peak |-> 0]

\* A freshly constructed Orderbook and, beside it, a freshly constructed
\* HalfBook of the given side.
InitWith(side) ==
    /\ ob = new_orderbook
    /\ ticket = NoTicket
    /\ response = NoResponse
    /\ half = new(side, MAX_PRICE, MIN_PRICE, TICK_SIZE)
    /\ call = NoCall
    /\ arrivals = <<>>
    /\ ledger = 0
    /\ calls = 0
    /\ args = NoArgs
    /\ vbook = orderbook_new

Init == InitWith("Buy")

\* ------------------------------------------------------- Orderbook actions
\* accept_order has run and given out.  A call that does not return leaves
\* the caller waiting: nothing follows it.
Answered(out) ==
    /\ ob' = out.ob
    /\ response' = IF out.returns THEN out.response ELSE NoReturn

\* One call of Orderbook::accept_order.
AcceptOrder(order_ticket) ==
    /\ response.kind # "NoReturn"
    /\ ob.current_id < MaxOrders
    /\ Answered(accept_order(ob, order_ticket))
    /\ ticket' = order_ticket
    /\ UNCHANGED <<halfVars, calls, args, vbook>>

Next == \E order_ticket \in Tickets : AcceptOrder(order_ticket)

Spec == Init /\ [][Next]_vars

\* -------------------------------------------------------- HalfBook actions
ValidPrice(hb, price) ==
    /\ hb.min_price <= price
    /\ price <= hb.max_price
    /\ (price - hb.min_price) % hb.tick_size = 0

SeqWithout(seq, x) ==
    LET RECURSIVE drop(_)
        drop(i) == IF i > Len(seq) THEN <<>>
                   ELSE IF seq[i] = x THEN SubSeq(seq, i + 1, Len(seq))
                   ELSE <<seq[i]>> \o drop(i + 1)
    IN  drop(1)

RECURSIVE SumTraded(_)
SumTraded(fills) ==
    IF fills = <<>> THEN 0 ELSE fills[1].traded + SumTraded(Tail(fills))

RECURSIVE WithoutFilled(_, _)
WithoutFilled(seq, fills) ==
    IF fills = <<>> THEN seq
    ELSE WithoutFilled(IF fills[1].order_empty THEN SeqWithout(seq, fills[1].id) ELSE seq,
                       Tail(fills))

\* Calls are made once the previous call has returned.
CanCall == call.returns

Inserted(r, id, size) ==
    /\ half' = r.hb
    /\ call' = Call("insert", size, r, <<>>, TRUE)
    /\ arrivals' = IF r.ok THEN Append(arrivals, id) ELSE arrivals
    /\ ledger' = IF r.ok THEN ledger + size ELSE ledger

Insert(id, price, size) ==
    /\ CanCall
    /\ Inserted(insert(half, id, price, size), id, size)
    /\ UNCHANGED obVars

Removed(r, id) ==
    /\ half' = r.hb
    /\ call' = Call("remove", 0, r, <<>>, TRUE)
    /\ arrivals' = IF r.ok THEN SeqWithout(arrivals, id) ELSE arrivals
    /\ ledger' = IF r.ok THEN ledger - half.arena[half.ids[id]].size ELSE ledger

Remove(id) ==
    /\ CanCall
    /\ Removed(remove(half, id), id)
    /\ UNCHANGED obVars

\* moved: the call took the order off its level (a price change).
Modified(r, id, size, moved) ==
    /\ half' = r.hb
    /\ call' = Call("modify", size, r, <<>>, TRUE)
    /\ arrivals' = IF moved
                   THEN IF r.ok THEN Append(SeqWithout(arrivals, id), id)
                        ELSE SeqWithout(arrivals, id)
                   ELSE arrivals
    /\ ledger' = IF r.ok THEN ledger + (size - half.arena[half.ids[id]].size)
                 ELSE IF moved THEN ledger - half.arena[half.ids[id]].size
                 ELSE ledger

Modify(id, price, size) ==
    /\ CanCall
    /\ Modified(modify(half, id, price, size), id, size,
                id \in DOMAIN half.ids
                /\ half.arena[half.ids[id]].price_index # calculate_price_index(half, price))
    /\ UNCHANGED obVars

Matched(r, size) ==
    /\ half' = r.hb
    /\ call' = Call("match_size", size, r, r.fills, r.returns)
    /\ arrivals' = WithoutFilled(arrivals, r.fills)
    /\ ledger' = ledger - SumTraded(r.fills)

MatchSize(size) ==
    /\ CanCall
    /\ Matched(match_size(half, size), size)
    /\ UNCHANGED obVars

\* The calls the HalfBook's caller may make: insert and modify with a positive
\* size and a price on the ladder, insert with an id that is not resting;
\* remove with any id and match_size with any size.
LegalInsert(id, price, size) ==
    size > 0 /\ ValidPrice(half, price) /\ id \notin DOMAIN half.ids
LegalModify(id, price, size) ==
    size > 0 /\ ValidPrice(half, price)

NextHalf ==
    \/ \E id \in Ids, price \in Prices, size \in Sizes :
          LegalInsert(id, price, size) /\ Insert(id, price, size) /\ UNCHANGED <<calls, args>>
    \/ \E id \in Ids : Remove(id) /\ UNCHANGED <<calls, args>>
    \/ \E id \in Ids, price \in Prices, size \in Sizes :
          LegalModify(id, price, size) /\ Modify(id, price, size) /\ UNCHANGED <<calls, args>>
    \/ \E size \in Sizes : MatchSize(size) /\ UNCHANGED <<calls, args>>

InitHalf == \E side \in Sides : InitWith(side)

SpecHalf == InitHalf /\ [][NextHalf]_vars

\* The same calls from a caller with one more id, in runs of MaxCalls calls.
Counted == calls < MaxCalls /\ calls' = calls + 1 /\ UNCHANGED args

NextDeep ==
    \/ \E id \in DeepIds, price \in Prices, size \in Sizes :
          Counted /\ LegalInsert(id, price, size) /\ Insert(id, price, size)
    \/ \E id \in DeepIds : Counted /\ Remove(id)
    \/ \E id \in DeepIds, price \in Prices, size \in Sizes :
          Counted /\ LegalModify(id, price, size) /\ Modify(id, price, size)
    \/ \E size \in Sizes : Counted /\ MatchSize(size)

SpecDeep == InitHalf /\ [][NextDeep]_vars

\* A HalfBook of either side on any of the grids, called with any arguments
\* in runs of MaxAnyCalls calls; the id and price of each call are noted.
InitAny ==
    \E side \in Sides, min_price \in MinPrices, tick_size \in TickSizes :
       /\ ob = new_orderbook
       /\ ticket = NoTicket
       /\ response = NoResponse
       /\ half = new(side, MAX_PRICE, min_price, tick_size)
       /\ call = NoCall
       /\ arrivals = <<>>
       /\ ledger = 0
       /\ calls = 0
       /\ args = NoArgs
       /\ vbook = orderbook_new

Noted(id, price, unique) ==
    /\ calls' = calls + 1
    /\ args' = [id |-> id, price |-> price,
                clean |-> args.clean /\ call'.ok /\ unique,
                all_ok |-> args.all_ok /\ call'.ok,
                peak |-> IF CountLinked(half', 0) > args.peak
                         THEN CountLinked(half', 0) ELSE args.peak]

NextAny ==
    \/ \E id \in Ids, price \in Prices, size \in Sizes :
          /\ calls < MaxAnyCalls
          /\ Insert(id, price, size)
          /\ Noted(id, price, id \notin DOMAIN half.ids)
    \/ \E id \in Ids :
          /\ calls < MaxAnyCalls
          /\ Remove(id)
          /\ Noted(id, 0, TRUE)
    \/ \E id \in Ids, price \in Prices, size \in Sizes :
          /\ calls < MaxAnyCalls
          /\ Modify(id, price, size)
          /\ Noted(id, price, TRUE)
    \/ \E size \in Sizes :
          /\ calls < MaxAnyCalls
          /\ MatchSize(size)
          /\ Noted(0, 0, TRUE)

SpecAny == InitAny /\ [][NextAny]_vars

\* ------------------------------------------- actions of the vector Orderbook
\* One call of accept_order of orderbook.rs.
OrderbookAnswered(out) ==
    /\ vbook' = out.ob
    /\ response' = out.response

OrderbookAcceptOrder(order_ticket) ==
    /\ vbook.current_id < MaxOrders
    /\ OrderbookAnswered(orderbook_accept_order(vbook, order_ticket))
    /\ ticket' = order_ticket
    /\ UNCHANGED <<ob, halfVars, calls, args>>

NextVector == \E order_ticket \in Tickets : OrderbookAcceptOrder(order_ticket)

SpecVector == Init /\ [][NextVector]_vars

\* ---------------------------------------------------------------- observers
\* The levels holding size, and the best of them for the book's side.
Populated(hb) == {i \in DOMAIN hb.orders : hb.orders[i].total_size > 0}
BestPopulated(hb) ==
    IF Populated(hb) = {} THEN None
    ELSE IF hb.side = "Buy"
    THEN Some(CHOOSE i \in Populated(hb) : \A j \in Populated(hb) : j <= i)
    ELSE Some(CHOOSE i \in Populated(hb) : \A j \in Populated(hb) : i <= j)

\* The ids resting on hb at level i, and the size they hold together, read
\* from the id index and the arena (not from the level's total_size).
RestingIds(hb, i) ==
    {id \in DOMAIN hb.ids :
        hb.ids[id] \in DOMAIN hb.arena /\ hb.arena[hb.ids[id]].price_index = i}

RECURSIVE SumSizes(_, _)
SumSizes(hb, idset) ==
    IF idset = {} THEN 0
    ELSE LET id == CHOOSE x \in idset : TRUE
         IN  hb.arena[hb.ids[id]].size + SumSizes(hb, idset \ {id})

RestingAt(hb, i) == SumSizes(hb, RestingIds(hb, i))
RestingSize(hb) == SumSizes(hb, {id \in DOMAIN hb.ids : hb.ids[id] \in DOMAIN hb.arena})

\* The size traded at level i by the fills before the k-th.
RECURSIVE TradedAt(_, _, _)
TradedAt(fills, i, k) ==
    IF k <= 1 THEN 0
    ELSE TradedAt(fills, i, k - 1)
         + (IF fills[k - 1].price_index = i THEN fills[k - 1].traded ELSE 0)

\* Level i is a strictly better price than level j on a book of that side.
Better(side, i, j) == IF side = "Buy" THEN i > j ELSE i < j

\* Maker a joined its level before maker b, and both rest at the same level.
Pos(seq, x) == CHOOSE i \in 1 .. Len(seq) : seq[i] = x
AheadAtLevel(hb, seq, a, b) ==
    /\ a \in DOMAIN hb.ids
    /\ b \in DOMAIN hb.ids
    /\ a # b
    /\ hb.arena[hb.ids[a]].price_index = hb.arena[hb.ids[b]].price_index
    /\ Pos(seq, a) < Pos(seq, b)

\* The levels of hb from the best price to the worst, and the notional of
\* filling size greedily against the orders resting on them: at each level
\* min(what is left to fill, what rests there), at the level's price.
BestFirst(hb) ==
    [k \in 1 .. VecLen(hb.orders) |->
        IF hb.side = "Buy" THEN VecLen(hb.orders) - k ELSE k - 1]

RECURSIVE GreedyNotional(_, _, _)
GreedyNotional(hb, levels, size) ==
    IF levels = <<>> \/ size <= 0 THEN 0
    ELSE Min(size, RestingAt(hb, levels[1])) * (hb.min_price + levels[1] * hb.tick_size)
         + GreedyNotional(hb, Tail(levels), size - Min(size, RestingAt(hb, levels[1])))

\* The half-book a ticket of the given side trades against, and its own.
Opposite(book, side) == IF side = "Sell" THEN book.bids ELSE book.asks
Own(book, side) == IF side = "Sell" THEN book.asks ELSE book.bids

\* The slots that hold no resting order.
FreeSlots(hb) == DOMAIN hb.arena \ {hb.ids[id] : id \in DOMAIN hb.ids}

\* How often slot s is linked in the levels' queues and named in free_list.
InLevels(hb, s) ==
    Cardinality({p \in (DOMAIN hb.orders) \X (1 .. VecLen(hb.arena)) :
                    /\ p[2] <= Len(LevelFifo(hb, p[1]))
                    /\ LevelFifo(hb, p[1])[p[2]] = s})
InFreeList(hb, s) == Cardinality({k \in 1 .. Len(hb.free_list) : hb.free_list[k] = s})

\* The slots linked in some level.
LinkedSlots(hb) == {s \in DOMAIN hb.arena : InLevels(hb, s) > 0}

\* The sizes of the orders of level i's queue, summed.
RECURSIVE SumFifo(_, _)
SumFifo(hb, fifo) ==
    IF fifo = <<>> THEN 0 ELSE hb.arena[fifo[1]].size + SumFifo(hb, Tail(fifo))

\* The ids stored along level i's queue, and the resting ids of level i in
\* the order they joined it.
FifoIds(hb, i) == [k \in 1 .. Len(LevelFifo(hb, i)) |-> hb.arena[LevelFifo(hb, i)[k]].id]
ArrivalsAt(hb, seq, i) ==
    LET AtLevel(id) == id \in DOMAIN hb.ids /\ hb.arena[hb.ids[id]].price_index = i
    IN  SelectSeq(seq, AtLevel)

\* The queue of level i is a well-formed doubly-linked list from head to tail.
WellLinked(hb, i, fifo) ==
    IF fifo = <<>> THEN hb.orders[i].head = None /\ hb.orders[i].tail = None
    ELSE /\ hb.orders[i].head = Some(fifo[1])
         /\ hb.orders[i].tail = Some(fifo[Len(fifo)])
         /\ hb.arena[fifo[1]].prev = None
         /\ hb.arena[fifo[Len(fifo)]].next = None
         /\ \A k \in 1 .. (Len(fifo) - 1) :
               /\ hb.arena[fifo[k]].next = Some(fifo[k + 1])
               /\ hb.arena[fifo[k + 1]].prev = Some(fifo[k])
         /\ \A k \in 1 .. Len(fifo), j \in 1 .. Len(fifo) : fifo[k] = fifo[j] => k = j

\* The ids stored in the orders queued on hb, one entry per queued order:
\* level, position in the queue, id.
QueuedIds(hb) ==
    {<<p[1], p[2], FifoIds(hb, p[1])[p[2]]>> :
        p \in {q \in (DOMAIN hb.orders) \X (1 .. VecLen(hb.arena)) :
                  q[2] <= Len(LevelFifo(hb, q[1]))}}

\* No two orders queued on either side of the Orderbook carry the same id.
DistinctIds(book) ==
    /\ \A x \in QueuedIds(book.bids), y \in QueuedIds(book.bids) : x[3] = y[3] => x = y
    /\ \A x \in QueuedIds(book.asks), y \in QueuedIds(book.asks) : x[3] = y[3] => x = y
    /\ \A x \in QueuedIds(book.bids), y \in QueuedIds(book.asks) : x[3] # y[3]

\* ------------------------------------------------------------------ claims

\* C1: no crossed book.  After any sequence of accept_order calls on a fresh
\* Orderbook, calls that return an error included, whenever get_best_bid and
\* get_best_ask are both Some, the best bid's price is below the best ask's.
C1_NoCrossedBook ==
    (IsSome(get_best_bid(ob)) /\ IsSome(get_best_ask(ob)))
        => Unwrap(get_best_bid(ob)).price < Unwrap(get_best_ask(ob)).price

\* Both sides rest one tick apart, and the last ticket was turned down.
C1_Witness ==
    /\ IsSome(get_best_bid(ob))
    /\ IsSome(get_best_ask(ob))
    /\ Unwrap(get_best_bid(ob)).price + 1 = Unwrap(get_best_ask(ob)).price
    /\ response.kind = "Err"

\* C2: top-of-book correctness.  After every insert, remove, modify or
\* match_size of a sequence whose inserts and modifies have a positive size
\* and a price on the ladder, and whose inserts use an id that is not
\* resting, top_of_book is Some(i) exactly when some level has
\* total_size > 0, and then i is the highest populated index of a Buy book
\* and the lowest of a Sell book.
C2_TopOfBookCorrect == half.top_of_book = BestPopulated(half)

\* A match emptied the best level and the top of book moved past an empty
\* level to the next populated one.
C2_Witness ==
    /\ call.op = "match_size"
    /\ Len(call.fills) > 0
    /\ IsSome(half.top_of_book)
    /\ Unwrap(half.top_of_book) - call.fills[1].price_index \in {2, -2}

\* C3: FIFO priority within a level.  If A joined a level before B and both
\* still rest there (A was not removed or moved to another price), a
\* match_size reduces B only after it has used A up: every fill of B comes
\* after a fill that emptied A, and if A is still resting after the call then
\* B rests with the size it had.  The caller's removes of other orders of the
\* level and in-place size modifications of A or B are among the calls made
\* before the match.
C3_FifoWithinLevel ==
    [][call'.op = "match_size" =>
          /\ \A k \in 1 .. Len(call'.fills) :
                \A a \in DOMAIN half.ids :
                   AheadAtLevel(half, arrivals, a, call'.fills[k].id)
                      => \E j \in 1 .. (k - 1) :
                            call'.fills[j].id = a /\ call'.fills[j].order_empty
          /\ \A a \in DOMAIN half.ids, b \in DOMAIN half.ids :
                (AheadAtLevel(half, arrivals, a, b) /\ a \in DOMAIN half'.ids)
                   => /\ b \in DOMAIN half'.ids
                      /\ half'.arena[half'.ids[b]].size = half.arena[half.ids[b]].size
    ]_vars

\* Two makers of one level were filled in their order of arrival, the second
\* in part, and a freed record shows an order that stood between them in the
\* queue and was taken off the level before the match.
C3_Witness ==
    /\ call.op = "match_size"
    /\ Len(call.fills) = 2
    /\ call.fills[1].price_index = call.fills[2].price_index
    /\ call.fills[1].order_empty
    /\ ~call.fills[2].order_empty
    /\ \E s \in FreeSlots(half) :
          /\ half.arena[s].price_index = call.fills[1].price_index
          /\ half.arena[s].size > 0
          /\ half.arena[s].prev = Some(call.fills[1].slot)
          /\ half.arena[s].next = Some(call.fills[2].slot)

\* C4: price priority.  During match_size no order is reduced at a level
\* while a strictly better level (a higher price on a Buy book, a lower one
\* on a Sell book) still holds resting size, and the levels are consumed from
\* the best to the worse, levels emptied by earlier removes being skipped.
C4_PricePriority ==
    [][call'.op = "match_size" =>
          \A k \in 1 .. Len(call'.fills) :
             /\ \A q \in DOMAIN half.orders :
                   Better(half.side, q, call'.fills[k].price_index)
                      => RestingAt(half, q) - TradedAt(call'.fills, q, k) = 0
             /\ k > 1 => ~Better(half.side, call'.fills[k].price_index,
                                 call'.fills[k - 1].price_index)
    ]_vars

\* A match filled at two levels two ticks apart, passing over the level
\* between them, where a freed record shows an order that was removed with
\* size left.
C4_Witness ==
    /\ call.op = "match_size"
    /\ Len(call.fills) = 2
    /\ call.fills[2].price_index - call.fills[1].price_index \in {2, -2}
    /\ \E s \in FreeSlots(half) :
          /\ 2 * half.arena[s].price_index
                = call.fills[1].price_index + call.fills[2].price_index
          /\ half.arena[s].size > 0

C6_FillOrDrain ==
    [][(call'.op = "match_size" /\ call'.size > 0) =>
          /\ call'.returns
          /\ call'.ok
          /\ get_total_liquidity(half')
                = get_total_liquidity(half) - Min(call'.size, get_total_liquidity(half))
          /\ \/ SumTraded(call'.fills) = call'.size
             \/ /\ DOMAIN half'.ids = {}
                /\ get_total_liquidity(half') = 0
                /\ half'.top_of_book = None
    ]_vars

\* A match for 2 found 1 to trade and drained the book.
C6_Witness ==
    /\ call.op = "match_size"
    /\ call.size = 2
    /\ call.ok
    /\ SumTraded(call.fills) = 1
    /\ half.top_of_book = None

\* C7: conservation of size.  After any sequence of successful calls with
\* positive sizes, get_total_liquidity() is the sum of the inserted sizes,
\* minus what remove took out, minus what match_size traded, plus the size
\* deltas of in-place modifies (a price-changing modify counting as a remove
\* and an insert); it is also the sum of the sizes of the resting orders.
C7_Conservation ==
    /\ get_total_liquidity(half) = ledger
    /\ get_total_liquidity(half) = RestingSize(half)

\* An in-place modify has just changed the size of one of two resting orders
\* that share a level.
C7_Witness ==
    /\ call.op = "modify"
    /\ call.ok
    /\ Cardinality(DOMAIN half.ids) = 2
    /\ \E i \in DOMAIN half.orders : Cardinality(RestingIds(half, i)) = 2
    /\ ledger = 3

\* The crossing rule as the specification words it, on the book the ticket
\* finds: the opposite best exists and is at or through the ticket's price.
Crossing(book, t) ==
    IF t.side = "Buy"
    THEN IsSome(get_best_ask(book)) /\ Unwrap(get_best_ask(book)).price <= t.price
    ELSE IsSome(get_best_bid(book)) /\ Unwrap(get_best_bid(book)).price >= t.price

\* The ticket was handled as a taker: a Market response, and nothing added to
\* its own half-book (no id was handed out either).
TakenAsTaker(t) ==
    /\ response'.kind = "Market"
    /\ Own(ob', t.side) = Own(ob, t.side)
    /\ ob'.current_id = ob.current_id

\* The ticket was handled as a maker: a Limit response whose id rests on its
\* own half-book at the ticket's price with the ticket's full size, the
\* opposite half-book being left alone.
TakenAsMaker(t) ==
    /\ response'.kind = "Limit"
    /\ Opposite(ob', t.side) = Opposite(ob, t.side)
    /\ response'.id \in DOMAIN Own(ob', t.side).ids
    /\ response'.id \notin DOMAIN Own(ob, t.side).ids
    /\ Own(ob', t.side).arena[Own(ob', t.side).ids[response'.id]].size = t.size
    /\ MIN_PRICE + TICK_SIZE * Own(ob', t.side).arena[Own(ob', t.side).ids[response'.id]].price_index
          = t.price
    /\ RestingSize(Own(ob', t.side)) = RestingSize(Own(ob, t.side)) + t.size

C9_NonPositiveSizeRejected ==
    (ticket.order_type \in {"Market", "Limit"} /\ ticket.size <= 0)
        => response.kind = "Err"

\* A ticket of negative size was answered with a Market response.
C9_Witness ==
    /\ ticket.size < 0
    /\ response.kind = "Market"

\* C10: invalid limit price is rejected.  accept_order answers an error for
\* every Limit ticket whose price is <= 0 or outside [MIN_PRICE, MAX_PRICE],
\* in every book state, those where the price would cross the opposite best
\* included.
C10_InvalidPriceRejected ==
    (/\ ticket.order_type = "Limit"
     /\ (ticket.price <= 0 \/ ticket.price < MIN_PRICE \/ ticket.price > MAX_PRICE))
        => response.kind = "Err"

\* A Limit ticket of positive size priced off the ladder was answered with a
\* Market response.
C10_Witness ==
    /\ ticket.order_type = "Limit"
    /\ ticket.size > 0
    /\ (ticket.price < MIN_PRICE \/ ticket.price > MAX_PRICE)
    /\ response.kind = "Market"

\* C11: insert validates the price.  On a HalfBook constructed with any
\* min_price <= max_price and tick_size >= 1, insert returns an error for
\* every price below min_price, above max_price, or not of the form
\* min_price + k * tick_size.
C11_InsertPriceValidated ==
    (call.op = "insert" /\ ~ValidPrice(half, args.price)) => ~call.ok

\* An insert at a price below min_price returned Ok.
C11_Witness ==
    /\ call.op = "insert"
    /\ call.ok
    /\ args.price < half.min_price

\* What C12 lists of a HalfBook: free_list, the arena's length, ids, every
\* level's head, tail and total_size, and top_of_book.
SameBook(h1, h2) ==
    /\ h1.free_list = h2.free_list
    /\ VecLen(h1.arena) = VecLen(h2.arena)
    /\ h1.ids = h2.ids
    /\ h1.orders = h2.orders
    /\ h1.top_of_book = h2.top_of_book

\* C12: a failed insert is side-effect free.  Whenever insert returns an
\* error (non-positive size, non-positive or out-of-range price) the HalfBook
\* is as before the call: same free_list, same arena length, same ids, same
\* head, tail and total_size of every level, same top_of_book.
C12_FailedInsertNoEffect ==
    [][(call'.op = "insert" /\ ~call'.ok) => SameBook(half', half)]_vars

\* The first call on a fresh HalfBook was an insert that failed, and the
\* free_list no longer names every slot of the arena.
C12_Witness ==
    /\ call.op = "insert"
    /\ ~call.ok
    /\ calls = 1
    /\ Len(half.free_list) < VecLen(half.arena)

\* C13: unknown identifier.  remove(id) and modify(id, p, s) return an error
\* when id is not in ids (never inserted, already removed, or used up by a
\* match) and leave the HalfBook unchanged; a second remove of an id fails.
C13_UnknownIdRejected ==
    [][(call'.op \in {"remove", "modify"} /\ args'.id \notin DOMAIN half.ids)
          => (~call'.ok /\ half' = half)]_vars

\* A remove failed for id 1, whose order a match had used up before: its
\* freed record still shows the id with no size left.
C13_Witness ==
    /\ call.op = "remove"
    /\ ~call.ok
    /\ args.id = 1
    /\ \E s \in FreeSlots(half) : half.arena[s].id = 1 /\ half.arena[s].size = 0

OrderbookOpposite(vb, side) == IF side = "Buy" THEN vb.asks ELSE vb.bids

\* C15: Market on an empty book, vector-based Orderbook (orderbook.rs).
\* accept_order of a Market ticket returns an error when the opposite side
\* holds no resting order, and whenever the opposite side's liquidity is
\* exhausted before the requested size is filled.
C15_VectorMarketUnderfillFails ==
    [][(/\ ticket'.order_type = "Market"
        /\ \/ VecLen(OrderbookOpposite(vbook, ticket'.side)) = 0
           \/ ticket'.size > orderbook_total_liquidity(
                                 vbook, IF ticket'.side = "Buy" THEN "Sell" ELSE "Buy"))
          => response'.kind = "Err"
    ]_vars

\* A Market ticket of size 2 was turned down after it had taken the only
\* order, of size 1, off the opposite side: both sides are empty and an id
\* has been handed out.
C15_Witness ==
    /\ ticket.order_type = "Market"
    /\ ticket.size = 2
    /\ response.kind = "Err"
    /\ vbook.current_id = 1
    /\ VecLen(vbook.bids) = 0
    /\ VecLen(vbook.asks) = 0

\* C16: arena partition.  After every call of a sequence of HalfBook calls
\* that each return Ok, with unique ids, every arena slot is either linked in
\* exactly one level's queue or named exactly once in free_list, never both
\* and never neither; so |free_list| + the number of resting orders is the
\* arena's length.
C16_ArenaPartition ==
    args.clean =>
       /\ \A s \in DOMAIN half.arena : InLevels(half, s) + InFreeList(half, s) = 1
       /\ \A k \in 1 .. Len(half.free_list) : half.free_list[k] \in DOMAIN half.arena
       /\ Len(half.free_list) + CountLinked(half, 0) = VecLen(half.arena)

\* A match used up one maker and stopped inside the next: one slot has gone
\* back to free_list, one is still linked.
C16_Witness ==
    /\ call.op = "match_size"
    /\ Len(call.fills) = 2
    /\ call.fills[1].order_empty
    /\ ~call.fills[2].order_empty
    /\ InFreeList(half, call.fills[1].slot) = 1
    /\ InLevels(half, call.fills[2].slot) = 1

\* C17: identifier index consistency.  After every call of a sequence with
\* unique ids and positive sizes, the keys of ids are exactly the ids of the
\* orders linked in some level, |ids| is the number of resting orders, and
\* for every id in ids arena[ids[id]].id = id, the slot is not in free_list
\* and it is linked in the level arena[ids[id]].price_index; an order used up
\* by match_size is no longer in ids.
C17_IdIndexConsistent ==
    /\ DOMAIN half.ids = {half.arena[s].id : s \in LinkedSlots(half)}
    /\ Cardinality(DOMAIN half.ids) = CountLinked(half, 0)
    /\ \A id \in DOMAIN half.ids :
          /\ half.ids[id] \in DOMAIN half.arena
          /\ half.arena[half.ids[id]].id = id
          /\ InFreeList(half, half.ids[id]) = 0
          /\ half.arena[half.ids[id]].price_index \in DOMAIN half.orders
          /\ \E k \in 1 .. Len(LevelFifo(half, half.arena[half.ids[id]].price_index)) :
                LevelFifo(half, half.arena[half.ids[id]].price_index)[k] = half.ids[id]
    /\ call.op = "match_size" =>
          \A k \in 1 .. Len(call.fills) :
             call.fills[k].order_empty => call.fills[k].id \notin DOMAIN half.ids

\* A match used up one of two resting makers: its id is gone from ids, the
\* other's is kept.
C17_Witness ==
    /\ call.op = "match_size"
    /\ Len(call.fills) = 1
    /\ call.fills[1].order_empty
    /\ Cardinality(DOMAIN half.ids) = 1

\* C18: level aggregate.  After every call of a sequence with positive sizes
\* and unique ids, every level's total_size is the sum of the sizes of the
\* orders in its queue, total_size >= 0, and head is none iff tail is none
\* iff total_size = 0.
C18_LevelAggregate ==
    \A i \in DOMAIN half.orders :
       /\ half.orders[i].total_size = SumFifo(half, LevelFifo(half, i))
       /\ half.orders[i].total_size >= 0
       /\ (half.orders[i].head = None) <=> (half.orders[i].tail = None)
       /\ (half.orders[i].head = None) <=> (half.orders[i].total_size = 0)

\* A match used up the last order of a level that had held two: the level is
\* back to no head, no tail and total_size 0, while another level holds size.
C18_Witness ==
    /\ call.op = "match_size"
    /\ Len(call.fills) = 1
    /\ call.fills[1].order_empty
    /\ half.orders[call.fills[1].price_index].head = None
    /\ half.orders[call.fills[1].price_index].tail = None
    /\ \E i \in DOMAIN half.orders : half.orders[i].total_size = 2

\* C19: linked-list well-formedness.  After every call (insert at the tail,
\* remove of a head, middle or tail order, a match using up the head), in
\* every level the head has prev = none, the tail has next = none, an order
\* whose next is n is the prev of the order at n and the other way round, and
\* following next from head visits every order of the level once, in the
\* order they were inserted, ending at tail.
C19_LinkedListWellFormed ==
    \A i \in DOMAIN half.orders :
       /\ WellLinked(half, i, LevelFifo(half, i))
       /\ FifoIds(half, i) = ArrivalsAt(half, arrivals, i)

\* A remove took the middle order out of a queue of three: the two left are
\* linked to each other and the freed record still points at both.
C19_Witness ==
    /\ call.op = "remove"
    /\ call.ok
    /\ \E i \in DOMAIN half.orders :
          /\ Len(LevelFifo(half, i)) = 2
          /\ \E s \in FreeSlots(half) :
                /\ half.arena[s].price_index = i
                /\ half.arena[s].size > 0
                /\ half.arena[s].prev = Some(LevelFifo(half, i)[1])
                /\ half.arena[s].next = Some(LevelFifo(half, i)[2])

\* What a caller can observe of a HalfBook: top_of_book, every level's
\* total_size, the total liquidity, ids, and the ids queued at every level in
\* queue order.
Observable(hb) ==
    [top_of_book |-> hb.top_of_book,
     total_size |-> [i \in DOMAIN hb.orders |-> hb.orders[i].total_size],
     total_liquidity |-> get_total_liquidity(hb),
     ids |-> DOMAIN hb.ids,
     fifo |-> [i \in DOMAIN hb.orders |-> FifoIds(hb, i)]]

\* insert(id, price, size) followed at once by remove(id).
RoundTrip(hb, id, price, size) == remove(insert(hb, id, price, size).hb, id)

\* C20: insert/remove round trip.  In any reachable HalfBook state and for
\* any valid arguments (an id that is not resting, a price on the ladder,
\* size > 0), insert(id, p, s) followed at once by remove(id) restores the
\* observable state: same top_of_book, same total_size at every level, same
\* total liquidity, same ids and same queue order at every level.
C20_InsertRemoveRoundTrip ==
    \A id \in Ids, price \in Prices, size \in Sizes :
       LegalInsert(id, price, size) =>
          /\ insert(half, id, price, size).ok
          /\ RoundTrip(half, id, price, size).ok
          /\ Observable(RoundTrip(half, id, price, size).hb) = Observable(half)

\* A level holds a resting order of size 0 under top_of_book, and an insert
\* at a better price followed by its remove leaves top_of_book at none.
C20_Witness ==
    /\ IsSome(half.top_of_book)
    /\ half.orders[Unwrap(half.top_of_book)].total_size = 0
    /\ \E id \in Ids, price \in Prices, size \in Sizes :
          /\ LegalInsert(id, price, size)
          /\ RoundTrip(half, id, price, size).ok
          /\ RoundTrip(half, id, price, size).hb.top_of_book = None

\* C21: identity modify.  modify(id, p, s) with p a price of the order's
\* current level and s its current size returns Ok and leaves the HalfBook as
\* it was: level totals, every queue, top_of_book, ids and free_list.
C21_IdentityModify ==
    \A id \in DOMAIN half.ids, price \in Prices :
       (/\ half.ids[id] \in DOMAIN half.arena
        /\ calculate_price_index(half, price) = half.arena[half.ids[id]].price_index)
          => modify(half, id, price, half.arena[half.ids[id]].size) = Ok(half, 0)

\* The last call was a successful modify of the order at the head of a level
\* with another order queued behind it, at a price of its level and with the
\* size it has; repeating it changes nothing.
C21_Witness ==
    /\ call.op = "modify"
    /\ call.ok
    /\ args.id \in DOMAIN half.ids
    /\ half.arena[half.ids[args.id]].size = call.size
    /\ call.size > 0
    /\ calculate_price_index(half, args.price) = half.arena[half.ids[args.id]].price_index
    /\ half.orders[half.arena[half.ids[args.id]].price_index].head = Some(half.ids[args.id])
    /\ IsSome(half.arena[half.ids[args.id]].next)
    /\ modify(half, args.id, args.price, call.size).hb = half

\* Every insert the caller may make on hb (positive size, price on the
\* ladder, id not resting) stores its order in slot k and shortens free_list
\* by one.
ReusesSlot(hb, k) ==
    \A id \in DeepIds, price \in Prices, size \in Sizes :
       (size > 0 /\ ValidPrice(hb, price) /\ id \notin DOMAIN hb.ids) =>
          /\ insert(hb, id, price, size).ok
          /\ insert(hb, id, price, size).hb.ids[id] = k
          /\ Len(insert(hb, id, price, size).hb.free_list) = Len(hb.free_list) - 1

\* The HalfBooks one call other than insert away from hb: a remove of a
\* resting id, a match_size, or a modify with a positive size and a price on
\* the ladder.
AfterOneCall(hb) ==
    {remove(hb, id).hb : id \in DOMAIN hb.ids}
    \cup {match_size(hb, size).hb : size \in Sizes}
    \cup {modify(hb, id, price, size).hb :
             id \in DOMAIN hb.ids,
             price \in {p \in Prices : ValidPrice(hb, p)},
             size \in {s \in Sizes : s > 0}}

\* C22 as stated: once remove(id) has freed slot k, the next insert occupies
\* slot k whatever calls other than insert were made in between.
C22_NextInsertReusesRemovedSlot ==
    [][(call'.op = "remove" /\ call'.ok) =>
          \A id \in (DOMAIN half.ids) \ (DOMAIN half'.ids) :
             \A hb \in {half'} \cup AfterOneCall(half') : ReusesSlot(hb, half.ids[id])]_vars

\* C22: LIFO slot reuse.  A successful insert on a non-empty free_list stores
\* its order in the slot at the end of free_list, the most recently freed
\* one, and takes it off free_list.  After remove(id) has freed slot k, the
\* next insert occupies slot k and free_list shrinks by one, provided no call
\* in between changed free_list (no insert, no other remove, no match_size
\* that used an order up).
C22_LifoSlotReuse ==
    [][/\ (call'.op = "insert" /\ call'.ok /\ Len(half.free_list) > 0) =>
             /\ half'.ids[arrivals'[Len(arrivals')]] = half.free_list[Len(half.free_list)]
             /\ half'.free_list = SubSeq(half.free_list, 1, Len(half.free_list) - 1)
       /\ (call'.op = "remove" /\ call'.ok) =>
             \A id \in (DOMAIN half.ids) \ (DOMAIN half'.ids) :
                /\ half'.free_list = Append(half.free_list, half.ids[id])
                /\ \A hb \in {half'}
                            \cup {h \in AfterOneCall(half') : h.free_list = half'.free_list} :
                      ReusesSlot(hb, half.ids[id])]_vars

\* A remove has just freed the slot at the end of free_list while another
\* order rests: the next insert takes the freed slot, but after a remove of
\* the other order it takes that order's slot instead.
C22_Witness ==
    /\ call.op = "remove"
    /\ call.ok
    /\ Len(half.free_list) > 0
    /\ half.free_list[Len(half.free_list)] \notin {half.ids[id] : id \in DOMAIN half.ids}
    /\ ReusesSlot(half, half.free_list[Len(half.free_list)])
    /\ \E id \in DOMAIN half.ids :
          /\ remove(half, id).ok
          /\ ReusesSlot(remove(half, id).hb, half.ids[id])
          /\ half.ids[id] # half.free_list[Len(half.free_list)]

\* C23: identifier assignment.  A Limit response carries the value current_id
\* had when the ticket came in and current_id is then one more, and
\* current_id never goes down: the ids of Limit responses are strictly
\* increasing in call order and never repeated.  No two resting orders, on
\* either side, share an id, and every resting id is below current_id.  A
\* Market ticket and a crossing Limit ticket leave current_id as it was.
C23_IdentifierAssignment ==
    [][/\ ob'.current_id >= ob.current_id
       /\ response'.kind = "Limit" =>
             /\ response'.id = ob.current_id
             /\ ob'.current_id = ob.current_id + 1
       /\ (ticket'.order_type = "Market"
           \/ crosses_book(ob, ticket'.side, ticket'.price)) =>
             ob'.current_id = ob.current_id
       /\ DistinctIds(ob')
       /\ \A x \in QueuedIds(ob'.bids) \cup QueuedIds(ob'.asks) : x[3] < ob'.current_id]_vars

\* The third Limit response was given and orders rest on both sides, two of
\* them queued at one level.
C23_Witness ==
    /\ response.kind = "Limit"
    /\ response.id = 2
    /\ QueuedIds(ob.bids) # {}
    /\ QueuedIds(ob.asks) # {}
    /\ \E x \in QueuedIds(ob.bids) \cup QueuedIds(ob.asks) : x[2] = 2

\* C24: gapless identifiers.  current_id counts the Limit responses given so
\* far: a Limit response carries the value current_id had when the ticket
\* came in, and only a ticket answered with a Limit response advances
\* current_id, so that the n-th Limit response carries id n - 1 whatever
\* Market or rejected tickets came in between.
C24_GaplessIdentifiers ==
    [][/\ response'.kind = "Limit" => response'.id = ob.current_id
       /\ response'.kind # "Limit" => ob'.current_id = ob.current_id]_vars

\* handle_maker ran twice: once it failed in insert after the slot was taken
\* (the slot is neither queued nor in free_list), once it answered with a
\* Limit response, the first of this Orderbook, and that carries id 1.
C24_Witness ==
    /\ response.kind = "Limit"
    /\ response.id = 1
    /\ ob.current_id = 2
    /\ \E s \in DOMAIN ob.bids.arena :
          InLevels(ob.bids, s) = 0 /\ InFreeList(ob.bids, s) = 0

\* hb1 differs from hb in nothing but the size of the order in slot s, which
\* is size, and the total_size of that order's level, which moved by the
\* difference: every other order, every link, every other level, every
\* queue, top_of_book, ids and free_list are the same.
OnlySizeChanged(hb, hb1, s, size) ==
    /\ hb1.top_of_book = hb.top_of_book
    /\ hb1.ids = hb.ids
    /\ hb1.free_list = hb.free_list
    /\ DOMAIN hb1.arena = DOMAIN hb.arena
    /\ \A t \in DOMAIN hb.arena :
          hb1.arena[t] = IF t = s THEN [hb.arena[t] EXCEPT !.size = size] ELSE hb.arena[t]
    /\ DOMAIN hb1.orders = DOMAIN hb.orders
    /\ \A i \in DOMAIN hb.orders :
          /\ hb1.orders[i].head = hb.orders[i].head
          /\ hb1.orders[i].tail = hb.orders[i].tail
          /\ LevelFifo(hb1, i) = LevelFifo(hb, i)
          /\ hb1.orders[i].total_size =
                IF i = hb.arena[s].price_index
                THEN hb.orders[i].total_size + (size - hb.arena[s].size)
                ELSE hb.orders[i].total_size

\* C25: in-place modify.  modify(id, p, s) with p a price of the order's
\* current level and s > 0 returns Ok and changes only that order's size, to
\* s, and its level's total_size, by s minus the old size; the order keeps
\* its place in the queue, and top_of_book, ids, free_list, every other order
\* and every other level are unchanged.
C25_InPlaceModify ==
    \A id \in DOMAIN half.ids, price \in Prices, size \in Sizes :
       (/\ size > 0
        /\ half.ids[id] \in DOMAIN half.arena
        /\ calculate_price_index(half, price) = half.arena[half.ids[id]].price_index)
          => /\ modify(half, id, price, size).ok
             /\ OnlySizeChanged(half, modify(half, id, price, size).hb, half.ids[id], size)

\* The last call was a successful modify, at a price of its own level, of an
\* order queued behind another; a further modify of it to another size
\* changes its size and its level's total and nothing else.
C25_Witness ==
    /\ call.op = "modify"
    /\ call.ok
    /\ args.id \in DOMAIN half.ids
    /\ calculate_price_index(half, args.price) = half.arena[half.ids[args.id]].price_index
    /\ IsSome(half.arena[half.ids[args.id]].prev)
    /\ call.size > 0
    /\ \E size \in Sizes :
          /\ size > 0
          /\ size # half.arena[half.ids[args.id]].size
          /\ OnlySizeChanged(half, modify(half, args.id, args.price, size).hb,
                             half.ids[args.id], size)

\* What a price-changing modify of the resting order id of hb to (price,
\* size) has to give as r: Ok with the state remove(id) then insert(id,
\* price, size) leaves; the order at the tail of the new level, behind every
\* order that was there; the old level's total less the old size and the new
\* level's total more the new size; the id still indexed; top_of_book the
\* best populated level, the new level when that is better than the old top
\* of book, and no longer the old level when that was emptied.
MovedLikeRemoveInsert(hb, id, from, to, size, r, twice) ==
    /\ r.ok
    /\ twice.ok
    /\ r.hb = twice.hb
    /\ id \in DOMAIN r.hb.ids
    /\ r.hb.arena[r.hb.ids[id]].price_index = to
    /\ r.hb.arena[r.hb.ids[id]].size = size
    /\ r.hb.orders[to].tail = Some(r.hb.ids[id])
    /\ FifoIds(r.hb, to) = Append(FifoIds(hb, to), id)
    /\ FifoIds(r.hb, from) = SeqWithout(FifoIds(hb, from), id)
    /\ r.hb.orders[from].total_size = hb.orders[from].total_size - hb.arena[hb.ids[id]].size
    /\ r.hb.orders[to].total_size = hb.orders[to].total_size + size
    /\ r.hb.top_of_book = BestPopulated(r.hb)
    /\ (IsSome(hb.top_of_book) /\ Better(hb.side, to, Unwrap(hb.top_of_book)))
          => r.hb.top_of_book = Some(to)
    /\ r.hb.orders[from].total_size = 0 => r.hb.top_of_book # Some(from)

\* C26: price-changing modify.  modify(id, p', s) of a resting order with p'
\* on the ladder at another level and s > 0 leaves the HalfBook in the state
\* that remove(id) followed by insert(id, p', s) leaves, with the order at
\* the tail of the new level and top_of_book at the best populated level.
C26_ModifyIsRemoveInsert ==
    \A id \in DOMAIN half.ids, price \in Prices, size \in Sizes :
       (/\ size > 0
        /\ ValidPrice(half, price)
        /\ calculate_price_index(half, price) # half.arena[half.ids[id]].price_index)
          => MovedLikeRemoveInsert(half, id, half.arena[half.ids[id]].price_index,
                                   calculate_price_index(half, price), size,
                                   modify(half, id, price, size),
                                   insert(remove(half, id).hb, id, price, size))

\* After a modify, an order rests alone at the top of book and a worse level
\* holds another order: moving the first to that level empties the old top
\* of book, queues the order behind the other one and makes that level the
\* top of book.
C26_Witness ==
    /\ call.op = "modify"
    /\ call.ok
    /\ \E id \in DOMAIN half.ids, price \in Prices :
          /\ ValidPrice(half, price)
          /\ half.top_of_book = Some(half.arena[half.ids[id]].price_index)
          /\ Better(half.side, half.arena[half.ids[id]].price_index,
                    calculate_price_index(half, price))
          /\ FifoIds(half, half.arena[half.ids[id]].price_index) = <<id>>
          /\ Len(FifoIds(half, calculate_price_index(half, price))) = 1
          /\ modify(half, id, price, 1).ok
          /\ modify(half, id, price, 1).hb.top_of_book
                = Some(calculate_price_index(half, price))
          /\ Len(FifoIds(modify(half, id, price, 1).hb,
                         calculate_price_index(half, price))) = 2

\* C27: no zero-size resting order.  After every insert, remove, modify or
\* match_size that returns Ok, whatever its arguments, every order queued at
\* a level has size > 0 and every level has total_size >= 0.
C27_NoZeroSizeResting ==
    call.ok =>
       \A i \in DOMAIN half.orders :
          /\ half.orders[i].total_size >= 0
          /\ \A k \in 1 .. Len(LevelFifo(half, i)) : half.arena[LevelFifo(half, i)[k]].size > 0

\* A modify with a size of zero or less returned Ok and the order it named
\* is queued with that size.
C27_Witness ==
    /\ call.op = "modify"
    /\ call.ok
    /\ call.size <= 0
    /\ args.id \in DOMAIN half.ids
    /\ half.arena[half.ids[args.id]].size = call.size
    /\ InLevels(half, half.ids[args.id]) = 1

\* C28: bounded arena growth.  While every call on a HalfBook has returned
\* Ok, the arena never gets shorter, it gets longer only by one record and
\* only in an insert that found free_list empty, and its length is the larger
\* of the number of ladder levels and the largest number of orders that have
\* rested at once so far.
C28_BoundedArenaGrowth ==
    [][args'.all_ok =>
          /\ VecLen(half'.arena) >= VecLen(half.arena)
          /\ VecLen(half'.arena) # VecLen(half.arena) =>
                /\ call'.op = "insert"
                /\ Len(half.free_list) = 0
                /\ VecLen(half'.arena) = VecLen(half.arena) + 1
          /\ VecLen(half'.arena) =
                IF args'.peak > VecLen(half'.orders) THEN args'.peak ELSE VecLen(half'.orders)]_vars

\* Every call returned Ok, more orders have rested at once than the ladder
\* has levels and the arena has grown to that number; an order has since
\* left, so that a slot is free again.
C28_Witness ==
    /\ args.all_ok
    /\ calls > 0
    /\ args.peak > VecLen(half.orders)
    /\ VecLen(half.arena) = args.peak
    /\ CountLinked(half, 0) < args.peak
    /\ Len(half.free_list) > 0

\* C29: failed modify keeps the order.  When modify(id, p, s) returns an
\* error for an id that is resting, the order rests afterwards at the level,
\* with the size and at the queue position it had, ids still maps the id to
\* its slot, and the level totals, top_of_book and free_list are unchanged.
C29_FailedModifyKeepsOrder ==
    [][(call'.op = "modify" /\ ~call'.ok /\ args'.id \in DOMAIN half.ids) =>
          /\ SameBook(half, half')
          /\ half'.arena[half.ids[args'.id]] = half.arena[half.ids[args'.id]]
          /\ \A i \in DOMAIN half.orders : LevelFifo(half', i) = LevelFifo(half, i)]_vars

\* Two calls were made, an insert and a modify that returned an error: the
\* arena holds the record of the order, with its size, but no id is indexed
\* and no level holds an order.
C29_Witness ==
    /\ calls = 2
    /\ call.op = "modify"
    /\ ~call.ok
    /\ DOMAIN half.ids = {}
    /\ CountLinked(half, 0) = 0
    /\ \E s \in DOMAIN half.arena : half.arena[s].size > 0 /\ half.arena[s].id = args.id

\* C30: match_size terminates.  In every state a HalfBook reaches by insert,
\* remove, modify and match_size calls with any arguments, a match_size call
\* of any size returns: the call just made has returned, and so would a call
\* of any size made now.
C30_MatchSizeTerminates ==
    /\ call.returns
    /\ call.returns => \A size \in Sizes : match_size(half, size).returns

\* A match_size call with a positive size was made on a book whose top of
\* book is a level with a negative total_size, and has not returned.
C30_Witness ==
    /\ call.op = "match_size"
    /\ call.size > 0
    /\ ~call.returns
    /\ IsSome(half.top_of_book)
    /\ half.orders[Unwrap(half.top_of_book)].total_size < 0

\* C31: a crossing limit is a market order.  From the same Orderbook state a
\* crossing Limit ticket of side S, size N and price P gives the outcome of a
\* Market ticket of side S and size N: the same response (notional and size,
\* or the same error), the same fills and the same two half-books.  The fill
\* is not bounded by P.
C31_CrossingLimitIsMarket ==
    \A side \in Sides, price \in Prices, size \in Sizes :
       crosses_book(ob, side, price) =>
          accept_order(ob, LimitTicket(side, price, size))
             = accept_order(ob, MarketTicket(side, size))

\* The last ticket was a crossing Limit Buy that was answered as a market
\* order and paid more than its price for each unit: it traded at a level
\* above its limit.
C31_Witness ==
    /\ ticket.order_type = "Limit"
    /\ ticket.side = "Buy"
    /\ response.kind = "Market"
    /\ response.notional > ticket.price * ticket.size
    /\ ticket.size > 0

\* C32: side isolation.  A Market ticket or a crossing Limit ticket of side S
\* leaves S's own half-book and current_id as they were: it changes the
\* opposite half-book only.  A Limit ticket that does not cross leaves the
\* opposite half-book as it was.
C32_SideIsolation ==
    [][IF ticket'.order_type = "Market" \/ crosses_book(ob, ticket'.side, ticket'.price)
       THEN /\ Own(ob', ticket'.side) = Own(ob, ticket'.side)
            /\ ob'.current_id = ob.current_id
       ELSE Opposite(ob', ticket'.side) = Opposite(ob, ticket'.side)]_vars

\* A Market ticket has used up the order with id 1 on the opposite half-book
\* (its slot is free again) while an order rests on its own side.
C32_Witness ==
    /\ ticket.order_type = "Market"
    /\ response.kind = "Market"
    /\ response.notional > 0
    /\ DOMAIN Own(ob, ticket.side).ids # {}
    /\ \E s \in DOMAIN Opposite(ob, ticket.side).arena :
          /\ InFreeList(Opposite(ob, ticket.side), s) = 1
          /\ Opposite(ob, ticket.side).arena[s].id = 1

\* C33: a partial fill keeps the queue head.  When match_size ends inside an
\* order (its last fill did not use the maker up), that order is still the
\* head of its level, with its size reduced by what was traded and still
\* positive, it is still in ids at its slot, its slot is not in free_list and
\* top_of_book points at its level; every fill before the last used its
\* maker up.
C33_PartialFillKeepsHead ==
    [][(/\ call'.op = "match_size"
        /\ Len(call'.fills) > 0
        /\ ~call'.fills[Len(call'.fills)].order_empty) =>
          LET f == call'.fills[Len(call'.fills)] IN
          /\ half'.orders[f.price_index].head = Some(f.slot)
          /\ half'.arena[f.slot].size = half.arena[f.slot].size - f.traded
          /\ half'.arena[f.slot].size > 0
          /\ f.id \in DOMAIN half'.ids
          /\ half'.ids[f.id] = f.slot
          /\ InFreeList(half', f.slot) = 0
          /\ half'.top_of_book = Some(f.price_index)
          /\ half'.orders[f.price_index].total_size
                = half.orders[f.price_index].total_size - TradedAt(call'.fills, f.price_index,
                                                                   Len(call'.fills) + 1)
          /\ \A k \in 1 .. (Len(call'.fills) - 1) : call'.fills[k].order_empty]_vars

\* A match_size used up one order and ended inside the next, which is now the
\* head of its level with another order queued behind it.
C33_Witness ==
    /\ call.op = "match_size"
    /\ call.ok
    /\ Len(call.fills) = 2
    /\ call.fills[1].order_empty
    /\ ~call.fills[2].order_empty
    /\ half.orders[call.fills[2].price_index].head = Some(call.fills[2].slot)
    /\ IsSome(half.arena[call.fills[2].slot].next)
    /\ half.arena[call.fills[2].slot].size = 1

\* The order in slot s of hb is still queued in hb1, once, at the level and
\* with the size it had.
StillQueued(hb, hb1, s) ==
    /\ s \in DOMAIN hb1.arena
    /\ InLevels(hb1, s) = 1
    /\ hb1.arena[s].id = hb.arena[s].id
    /\ hb1.arena[s].size = hb.arena[s].size
    /\ hb1.arena[s].price_index = hb.arena[s].price_index

\* No remove and no modify of id on hb reaches the order in slot s: whatever
\* the call and its result, that order stays queued as it is.
Unreachable(hb, id, s) ==
    /\ StillQueued(hb, remove(hb, id).hb, s)
    /\ ~remove(remove(hb, id).hb, id).ok
    /\ \A price \in Prices, size \in Sizes : StillQueued(hb, modify(hb, id, price, size).hb, s)

\* C34: duplicate id on insert.  An insert with an id that is resting is not
\* turned down for it: with a price that maps to a level and a positive size
\* it returns Ok.  It leaves one ids entry for the id, at the slot it newly
\* acquired; the earlier order stays queued at its level and counted in that
\* level's total_size, out of reach of remove and modify; and ids has fewer
\* entries than there are resting orders.
C34_DuplicateIdOrphans ==
    [][(call'.op = "insert" /\ args'.id \in DOMAIN half.ids) =>
          /\ call'.ok = (/\ args'.price > 0
                         /\ call'.size > 0
                         /\ calculate_price_index(half, args'.price) \in DOMAIN half.orders)
          /\ call'.ok =>
                /\ DOMAIN half'.ids = DOMAIN half.ids
                /\ half'.ids[args'.id] = acquire_slot(half).arena_index
                /\ half'.ids[args'.id] # half.ids[args'.id]
                /\ InLevels(half', half'.ids[args'.id]) = 1
                /\ StillQueued(half, half', half.ids[args'.id])
                /\ \A i \in DOMAIN half'.orders :
                      half'.orders[i].total_size - half.orders[i].total_size
                         = IF i = calculate_price_index(half, args'.price)
                           THEN call'.size ELSE 0
                /\ Unreachable(half', args'.id, half.ids[args'.id])
                /\ Cardinality(DOMAIN half'.ids) < CountLinked(half', 0)]_vars

\* Two inserts with the same id were made and both returned Ok: one id is
\* indexed, two orders carrying it are queued at the same level, and the
\* level's total_size counts both.
C34_Witness ==
    /\ calls = 2
    /\ call.op = "insert"
    /\ call.ok
    /\ args.all_ok
    /\ ~args.clean
    /\ Cardinality(DOMAIN half.ids) = 1
    /\ CountLinked(half, 0) = 2
    /\ \E i \in DOMAIN half.orders :
          /\ FifoIds(half, i) = <<args.id, args.id>>
          /\ half.orders[i].total_size = SumFifo(half, LevelFifo(half, i))
          /\ half.ids[args.id] = LevelFifo(half, i)[2]

\* The notional of the fills at the ladder's prices: each fill's traded size
\* at min_price + price_index * tick_size.
RECURSIVE LadderNotional(_, _)
LadderNotional(hb, fills) ==
    IF fills = <<>> THEN 0
    ELSE fills[1].traded * (hb.min_price + fills[1].price_index * hb.tick_size)
         + LadderNotional(hb, Tail(fills))

\* C35: price/index round trip under any tick.  On a HalfBook of any
\* tick_size >= 1, an order inserted at an aligned in-range price p that
\* becomes the top of book is reported by get_top_of_book with price p, and a
\* match_size that returns Ok(notional) has traded every fill at the price
\* min_price + index * tick_size of its level.
C35_PriceIndexRoundTrip ==
    [][/\ (/\ call'.op = "insert"
           /\ call'.ok
           /\ ValidPrice(half, args'.price)
           /\ half'.top_of_book = Some(calculate_price_index(half, args'.price))) =>
             /\ IsSome(get_top_of_book(half'))
             /\ Unwrap(get_top_of_book(half')).price = args'.price
       /\ (call'.op = "match_size" /\ call'.ok) =>
             call'.val = LadderNotional(half, call'.fills)]_vars

\* On a ladder with tick_size 2 an insert at an aligned in-range price has
\* made its level, which is not the lowest, the top of book, and
\* get_top_of_book reports another price.
C35_Witness ==
    /\ half.tick_size = 2
    /\ call.op = "insert"
    /\ call.ok
    /\ ValidPrice(half, args.price)
    /\ half.top_of_book = Some(calculate_price_index(half, args.price))
    /\ calculate_price_index(half, args.price) >= 1
    /\ IsSome(get_top_of_book(half))
    /\ Unwrap(get_top_of_book(half)).price # args.price

\* The levels of hb that hold size and are strictly worse than level tob.
WorseLevels(hb, tob) ==
    {i \in DOMAIN hb.orders : Better(hb.side, tob, i) /\ hb.orders[i].total_size # 0}

\* From every ladder index, and from the index L one past the ladder,
\* find_next_best_level gives the nearest level of WorseLevels, or None when
\* there is none; what it gives is an index of the ladder.
ScansToNearest(hb) ==
    \A tob \in 0 .. VecLen(hb.orders) :
       IF WorseLevels(hb, tob) = {}
       THEN find_next_best_level(hb, tob) = None
       ELSE /\ IsSome(find_next_best_level(hb, tob))
            /\ Unwrap(find_next_best_level(hb, tob)) \in WorseLevels(hb, tob)
            /\ \A i \in WorseLevels(hb, tob) :
                  ~Better(hb.side, i, Unwrap(find_next_best_level(hb, tob)))

\* C36: the best-level scan stays inside the ladder.  find_next_best_level
\* returns the nearest populated index strictly worse than the old one (lower
\* on Buy, higher on Sell), an index of 0..L-1, and none when there is none.
\* A remove or a match_size that empties the top of book at the last index
\* of the scan's direction (0 on Buy, L-1 on Sell) returns Ok and sets
\* top_of_book to none.
C36_ScanStaysInLadder ==
    [][/\ ScansToNearest(half')
       /\ (/\ call'.op \in {"remove", "match_size"}
           /\ half.top_of_book
                 = Some(IF half.side = "Buy" THEN 0 ELSE VecLen(half.orders) - 1)
           /\ half'.orders[Unwrap(half.top_of_book)].total_size = 0
           /\ half.orders[Unwrap(half.top_of_book)].total_size # 0) =>
             /\ call'.ok
             /\ call'.returns
             /\ half'.top_of_book = None]_vars

\* A match_size on a Sell book used up the last order at index L-1, the top
\* of book, and top_of_book is none.
C36_Witness ==
    /\ call.op = "match_size"
    /\ call.ok
    /\ half.side = "Sell"
    /\ Len(call.fills) > 0
    /\ call.fills[Len(call.fills)].price_index = VecLen(half.orders) - 1
    /\ call.fills[Len(call.fills)].order_empty
    /\ half.top_of_book = None
    /\ find_next_best_level(half, VecLen(half.orders) - 1) = None
====
